---- MODULE Spec2Model ----
(***************************************************************************)
(* Model of the fund crawler (src/cmd/fund_crawler/main.go).               *)
(*                                                                         *)
(* Strings are sequences of one-character strings.  A response body of    *)
(* the catalog endpoint is such a sequence; the catalog parser of          *)
(* getNodeList is computed on it character by character.                   *)
(***************************************************************************)
EXTENDS Integers, Sequences, FiniteSets, TLC

(***************************************************************************)
(* Go string helpers (package strings), on sequences of characters.        *)
(***************************************************************************)

\* s has sub at 0-based offset i
HasAt(s, sub, i) ==
    /\ i + Len(sub) <= Len(s)
    /\ SubSeq(s, i + 1, i + Len(sub)) = sub

\* strings.Index: 0-based offset of the first occurrence of sub in s, or -1
Index(s, sub) ==
    IF \E i \in 0..Len(s) : HasAt(s, sub, i)
    THEN CHOOSE i \in 0..Len(s) :
            /\ HasAt(s, sub, i)
            /\ \A j \in 0..(i - 1) : ~HasAt(s, sub, j)
    ELSE -1

\* the slice expression s[lo:hi] is in range (it panics otherwise)
SliceInRange(s, lo, hi) == 0 <= lo /\ lo <= hi /\ hi <= Len(s)

\* the slice expression s[lo:hi], for lo, hi in range
GoSlice(s, lo, hi) == SubSeq(s, lo + 1, hi)

RECURSIVE Split(_, _)
\* strings.Split for a non-empty separator
\* (i ranges over one value: the offset is computed once per call)
Split(s, sep) ==
    CHOOSE parts \in
        { IF i = -1
          THEN <<s>>
          ELSE <<SubSeq(s, 1, i)>> \o Split(SubSeq(s, i + Len(sep) + 1, Len(s)), sep) :
            i \in {Index(s, sep)} } :
        TRUE

RECURSIVE TrimLeft(_, _)
TrimLeft(s, cutset) ==
    IF s # <<>> /\ Head(s) \in cutset THEN TrimLeft(Tail(s), cutset) ELSE s

RECURSIVE TrimRight(_, _)
TrimRight(s, cutset) ==
    IF s # <<>> /\ s[Len(s)] \in cutset
    THEN TrimRight(SubSeq(s, 1, Len(s) - 1), cutset)
    ELSE s

\* strings.Trim: strip the characters of cutset from both ends
Trim(s, cutset) == TrimRight(TrimLeft(s, cutset), cutset)

\* white space, as far as the bodies of this model contain any
White == {" ", "\n"}

\* strings.TrimSpace
TrimSpace(s) == Trim(s, White)

(***************************************************************************)
(* Catalog parser: the text part of getNodeList (lines 95-115).            *)
(***************************************************************************)

\* the zero value of FundNode
ZeroNode == [Code |-> <<>>, Abridge |-> <<>>, Name |-> <<>>, Type |-> <<>>, Pinyin |-> <<>>]

\* the cutset "\"[]" of the five strings.Trim calls
NodeCutset == {"\"", "[", "]"}

\* the separator "\",\"" between the fields of a tuple
FieldSep == <<"\"", ",", "\"">>

\* the separator "]," between tuples
TupleSep == <<"]", ",">>

\* s = s[strings.Index(s, "=")+1:] followed by strings.TrimSpace
CatalogText(body) ==
    TrimSpace(GoSlice(body, Index(body, <<"=">>) + 1, Len(body)))

\* s[1 : len(s)-3] is out of range: the run-time panic of line 98
CatalogPanics(body) ==
    ~SliceInRange(CatalogText(body), 1, Len(CatalogText(body)) - 3)

\* the element of nodeList one raw tuple leaves behind (loop body, lines 102-113)
NodeOf(list) ==
    LET segs == Split(list, FieldSep)
    IN  IF Len(segs) # 5
        THEN ZeroNode
        ELSE [Code    |-> Trim(segs[1], NodeCutset),
              Abridge |-> Trim(segs[2], NodeCutset),
              Name    |-> Trim(segs[3], NodeCutset),
              Type    |-> Trim(segs[4], NodeCutset),
              Pinyin  |-> Trim(segs[5], NodeCutset)]

\* the slice getNodeList returns for a body on which it does not panic
\* (s and lists range over one value each, the locals of lines 95-99)
ParseCatalog(body) ==
    CHOOSE nodeList \in
        { [i \in 1..Len(lists) |-> NodeOf(lists[i])] :
            lists \in { Split(GoSlice(s, 1, Len(s) - 3), TupleSep) : s \in {CatalogText(body)} } } :
        TRUE

(***************************************************************************)
(* Catalog payloads the remote endpoint may answer with.                   *)
(***************************************************************************)

\* longest catalog, in tuples
MaxNodes == 2

\* longest history page, in records
MaxRecords == 2

\* all sequences over S of length at most n
SeqsUpTo(S, n) == UNION {[1..k -> S] : k \in 0..n}

\* source tuples: two well-formed ones, one of 4 fields, and a well-formed one
\* whose code makes the history URL unparseable ("#%" opens a fragment holding
\* an invalid percent escape)
Tuple1 == << <<"1">>, <<"A">>, <<"n">>, <<"T">>, <<"p">> >>
Tuple2 == << <<"2">>, <<"B">>, <<"m">>, <<"T">>, <<"q">> >>
TupleFour == << <<"3">>, <<"C">>, <<"k">>, <<"T">> >>
TupleBadUrl == << <<"#", "%">>, <<"D">>, <<"l">>, <<"T">>, <<"r">> >>
TupleSet == {Tuple1, Tuple2, TupleFour, TupleBadUrl}

RECURSIVE Join(_, _)
\* the elements of parts, separated by sep
Join(parts, sep) ==
    IF parts = <<>> THEN <<>>
    ELSE IF Len(parts) = 1 THEN parts[1]
    ELSE parts[1] \o sep \o Join(Tail(parts), sep)

Quoted(f) == <<"\"">> \o f \o <<"\"">>

\* ["f1","f2",...]
RenderTuple(t) ==
    <<"[">> \o Join([i \in 1..Len(t) |-> Quoted(t[i])], <<",">>) \o <<"]">>

\* var r = [[...],[...]];
RenderCatalog(tuples) ==
    <<"v", "a", "r", " ", "r", " ", "=", " ", "[">>
        \o Join([i \in 1..Len(tuples) |-> RenderTuple(tuples[i])], <<",">>)
        \o <<"]", ";">>

\* bodies that are no catalog at all: empty, short without '=', an error page
RawBodies == { <<>>, <<"4", "0", "4">>, <<"<", "h", "t", "m", "l", ">">> }

\* what a status-200 answer of the catalog endpoint may carry: src is the list
\* of tuples the body was rendered from (<<>> for a raw body)
CatalogAnswers ==
    {[src |-> t, rendered |-> TRUE, body |-> RenderCatalog(t)] : t \in SeqsUpTo(TupleSet, MaxNodes)}
        \cup {[src |-> <<>>, rendered |-> FALSE, body |-> b] : b \in RawBodies}

(***************************************************************************)
(* History payloads.  A body is a sequence of tokens: single characters,   *)
(* and the members ("key":value) of the JSON object, already lexed.        *)
(***************************************************************************)

Ch(c) == [t |-> "char", c |-> c]
Member(k, v) == [t |-> "member", k |-> k, v |-> v]

\* the records of a history page (type FundDetail, the fields sink reads)
DetailGood ==
    [FSRQ |-> "2024-01-02", DWJZ |-> "1.234", LJJZ |-> "2.345", JZZZL |-> "0.12",
     NAVTYPE |-> "1", SGZT |-> "open", SHZT |-> "open"]
DetailBadDate == [DetailGood EXCEPT !.FSRQ = "bad"]
DetailLoose == [DetailGood EXCEPT !.FSRQ = "2024-01-03", !.DWJZ = "", !.LJJZ = "n/a"]
DetailNaN == [DetailGood EXCEPT !.FSRQ = "2024-01-04", !.DWJZ = "NaN"]
Details == {DetailGood, DetailBadDate, DetailLoose, DetailNaN}

\* jQuer({"ErrCode":0,"Data":{"LSJZList":[...]}, ...}); the page is the first
\* of several (TotalCount is larger than PageSize)
Envelope(list) ==
    <<Ch("j"), Ch("("), Ch("{"), Member("ErrCode", 0), Member("LSJZList", list),
      Member("TotalCount", 45), Member("PageIndex", 1), Member("PageSize", 20),
      Ch("}"), Ch(")")>>

HistoryBodies ==
    {Envelope(l) : l \in SeqsUpTo(Details, MaxRecords)}
        \cup { <<Ch("j"), Ch("("), Ch(")")>>,                             \* no '{'
               <<Ch("{"), Ch("}")>>,                                      \* empty object
               <<Ch("{"), Member("ErrCode", 0)>>,                         \* truncated
               <<Ch("{"), Ch("j"), Ch("}")>>,                             \* not JSON
               \* a value between a stray '}' and text that is no JSON
               <<Ch("}"), Ch("{"), Member("ErrCode", 0), Ch("}"), Ch("{"), Ch("j")>>,
               <<Ch("j"), Ch("{"), Member("ErrCode", 7), Member("ErrMsg", "denied"),
                 Member("PageIndex", 1), Member("PageSize", 20), Ch("}")>> }

(***************************************************************************)
(* History parser: parseFund (lines 149-164).                              *)
(***************************************************************************)

\* the zero value of FundInfo (Data.LSJZList flattened to LSJZList)
ZeroInfo ==
    [ErrCode |-> 0, ErrMsg |-> "", TotalCount |-> 0, PageIndex |-> 0, PageSize |-> 0,
     LSJZList |-> <<>>]

NoErr == [kind |-> "nil"]

\* 1-based position of the first token of data that is the character c, 0 if none
FirstChar(data, c) ==
    IF \E i \in 1..Len(data) : data[i] = Ch(c)
    THEN CHOOSE i \in 1..Len(data) :
            /\ data[i] = Ch(c)
            /\ \A j \in 1..(i - 1) : data[j] # Ch(c)
    ELSE 0

RECURSIVE Unmarshal(_, _)
\* the members of the object stored into info, in order (a later key wins,
\* an unknown key is ignored)
Unmarshal(info, members) ==
    IF members = <<>> THEN info
    ELSE LET m == Head(members)
         IN  Unmarshal(IF m.k \in DOMAIN info THEN [info EXCEPT ![m.k] = m.v] ELSE info,
                       Tail(members))

\* 1-based position of the first token after the opening '{' that is no member,
\* 0 if the text ends before one
ObjectEnd(data) ==
    IF \E i \in 2..Len(data) : data[i].t # "member"
    THEN CHOOSE i \in 2..Len(data) :
            /\ data[i].t # "member"
            /\ \A j \in 2..(i - 1) : data[j].t = "member"
    ELSE 0

\* json.Decoder.Decode on text that starts with '{': one JSON value is read,
\* whatever follows it is left unread
Decode(data) ==
    LET end == ObjectEnd(data)
    IN  IF end = 0
        THEN [info |-> ZeroInfo, err |-> [kind |-> "json", what |-> "unexpected EOF"]]
        ELSE IF data[end] # Ch("}")
        THEN [info |-> ZeroInfo, err |-> [kind |-> "json", what |-> "invalid character"]]
        ELSE [info |-> Unmarshal(ZeroInfo, SubSeq(data, 2, end - 1)), err |-> NoErr]

\* the whole body handed to the decoder once it is known to hold a '{'
parseFundWholeBody(body) ==
    LET beg == FirstChar(body, "{")
    IN  IF beg = 0
        THEN [info |-> ZeroInfo, err |-> [kind |-> "invalid response body"]]
        ELSE Decode(body)

\* parseFund
parseFund(body) ==
    LET beg == FirstChar(body, "{")
    IN  IF beg = 0
        THEN [info |-> ZeroInfo, err |-> [kind |-> "invalid response body"]]
        ELSE Decode(SubSeq(body, beg, Len(body)))

(***************************************************************************)
(* Point builder and sink: sink (lines 192-237).                           *)
(***************************************************************************)

\* dateparse.ParseLocal on the date strings of this model
ParseLocal(s) ==
    CASE s = "2024-01-02" -> [ok |-> TRUE, time |-> 20240102]
      [] s = "2024-01-03" -> [ok |-> TRUE, time |-> 20240103]
      [] s = "2024-01-04" -> [ok |-> TRUE, time |-> 20240104]
      [] OTHER -> [ok |-> FALSE, time |-> 0]

\* strconv.ParseFloat(s, 64) on the numeric strings of this model; the value is
\* in thousandths, "NaN" parses to the NaN value
ParseFloat(s) ==
    CASE s = "1.234" -> [ok |-> TRUE, nan |-> FALSE, milli |-> 1234]
      [] s = "2.345" -> [ok |-> TRUE, nan |-> FALSE, milli |-> 2345]
      [] s = "0.12" -> [ok |-> TRUE, nan |-> FALSE, milli |-> 120]
      [] s = "NaN" -> [ok |-> TRUE, nan |-> TRUE, milli |-> 0]
      [] OTHER -> [ok |-> FALSE, nan |-> FALSE, milli |-> 0]

StringKeys == {"NAVTYPE", "SGZT", "SHZT"}
FloatKeys == {"DWJZ", "LJJZ", "JZZZL"}

\* the map fields of one record (lines 211-224)
Fields(fund) ==
    [k \in StringKeys \cup {f \in FloatKeys : ParseFloat(fund[f]).ok} |->
        IF k \in StringKeys THEN fund[k] ELSE ParseFloat(fund[k])]

\* the tags with the abridged name taken from the full name
TagsNameForAbridge(node) ==
    [code |-> node.Code, abridge |-> node.Name, name |-> node.Name,
     type |-> node.Type, pinyin |-> node.Pinyin]

\* the map tags (lines 199-205)
Tags(node) ==
    [code |-> node.Code, abridge |-> node.Abridge, name |-> node.Name,
     type |-> node.Type, pinyin |-> node.Pinyin]

\* client.NewPoint refuses a float field that is NaN
NewPointFails(fields) ==
    \E k \in DOMAIN fields : k \in FloatKeys /\ fields[k].nan

RECURSIVE BuildPointsSkipsBadDate(_, _, _)
\* the loop going on to the next record when a date does not parse
BuildPointsSkipsBadDate(tags, list, points) ==
    IF list = <<>> THEN [err |-> NoErr, points |-> points]
    ELSE LET fund == Head(list)
             ptime == ParseLocal(fund.FSRQ)
         IN  IF ~ptime.ok
             THEN BuildPointsSkipsBadDate(tags, Tail(list), points)
             ELSE IF NewPointFails(Fields(fund))
             THEN [err |-> [kind |-> "newpoint"], points |-> <<>>]
             ELSE BuildPointsSkipsBadDate(tags, Tail(list),
                      Append(points, [tags |-> tags, fields |-> Fields(fund), time |-> ptime.time]))

RECURSIVE BuildPoints(_, _, _)
\* the loop of lines 206-230 over the records not yet visited: the batch when
\* every point was built, the error of the first record that fails otherwise
BuildPoints(tags, list, points) ==
    IF list = <<>> THEN [err |-> NoErr, points |-> points]
    ELSE LET fund == Head(list)
             ptime == ParseLocal(fund.FSRQ)
         IN  IF ~ptime.ok
             THEN [err |-> [kind |-> "dateparse", value |-> fund.FSRQ], points |-> <<>>]
             ELSE IF NewPointFails(Fields(fund))
             THEN [err |-> [kind |-> "newpoint"], points |-> <<>>]
             ELSE BuildPoints(tags, Tail(list),
                      Append(points, [tags |-> tags, fields |-> Fields(fund), time |-> ptime.time]))

(***************************************************************************)
(* URLs and the errors of the HTTP fetcher.                                *)
(***************************************************************************)

CatalogUrl == [endpoint |-> "fundcode_search.js"]

\* no fetch is under way
NoUrl == [endpoint |-> "none"]

\* the URL of the page after the first
FundUrlNextPage(code) == [endpoint |-> "lsjz", fundCode |-> code, pageIndex |-> 2, pageSize |-> 20]

\* fundUrl of getFund (line 172); the cache-busting timestamp is left out
FundUrl(code) == [endpoint |-> "lsjz", fundCode |-> code, pageIndex |-> 1, pageSize |-> 20]

HexDigits == {"0", "1", "2", "3", "4", "5", "6", "7", "8", "9"}

\* url.Parse fails on the history URL of this code: after a '#' in the code the
\* text is a fragment, in which '%' must be followed by two hex digits (the
\* text after the code starts with '&')
UrlParseFails(code) ==
    \E i, j \in 1..Len(code) :
        /\ i < j
        /\ code[i] = "#"
        /\ code[j] = "%"
        /\ ~(j + 2 <= Len(code) /\ code[j + 1] \in HexDigits /\ code[j + 2] \in HexDigits)

\* the attempt budget of one getHttpResponse call (line 119)
Attempts == 3

\* status codes other than 200 the remote end answers with
BadStatuses == {404, 500}

HttpGetError(u) == [kind |-> "http get error", url |-> u]
HttpCodeError(code, u) == [kind |-> "http code error", code |-> code, url |-> u]

(***************************************************************************)
(* The process: main, run, getNodeList, getFund, getHttpResponse, sink.    *)
(* The locals of a function hold their zero value outside its call.        *)
(***************************************************************************)

VARIABLES
    pc,          \* where the single thread of control stands
    url,         \* getHttpResponse: fundUrl
    cnt,         \* getHttpResponse: cnt
    err,         \* getHttpResponse: err
    resp,        \* getNodeList, getFund: the body of resp
    nodeList,    \* run: nodeList
    idx,         \* run: position of fundNode in nodeList (0 before the loop)
    info,        \* getFund: fundInfo
    fundErr,     \* run: the error getFund returned
    runErr,      \* main: the error run returned
    lastLog,     \* the line written last to the log stream
    openBodies,  \* response bodies received and not closed
    attempts,    \* history: the result of each attempt of the last fetch
    catalogSrc,  \* history: what the catalog body of this cycle was made of
    processed,   \* history: the positions getFund was called for in this cycle
    fundReqs,    \* history: requests sent for the current instrument
    writeCalls,  \* history: influxClient.Write calls for the current instrument
    batch,       \* history: the points handed to Write for the current instrument
    parsed,      \* history: what parseFund decoded for the current instrument
    fetchCalls,  \* history: getHttpResponse calls made for the current instrument
    writeResult, \* history: what the last Write call for the current instrument returned
    pauses       \* history: sleeps since getFund returned last

vars == <<pc, url, cnt, err, resp, nodeList, idx, info, fundErr, runErr, lastLog,
          openBodies, attempts, catalogSrc, processed, fundReqs, writeCalls, batch, parsed,
          fetchCalls, writeResult, pauses>>

fetchVars == <<url, cnt, err>>
cycleVars == <<nodeList, idx, catalogSrc, processed>>
fundVars == <<fundReqs, writeCalls, batch, parsed, fetchCalls, writeResult>>

\* nothing was decoded
NotParsed == [ok |-> FALSE, info |-> ZeroInfo]

\* the history variables of one instrument, before getFund is called for it
FreshFund ==
    /\ fundReqs' = 0
    /\ writeCalls' = 0
    /\ batch' = <<>>
    /\ parsed' = NotParsed
    /\ fetchCalls' = 0
    /\ writeResult' = NoErr

NoSrc == [src |-> <<>>, rendered |-> FALSE]

Init ==
    /\ pc = "main"
    /\ url = NoUrl
    /\ cnt = 0
    /\ err = NoErr
    /\ resp = <<>>
    /\ nodeList = <<>>
    /\ idx = 0
    /\ info = ZeroInfo
    /\ fundErr = NoErr
    /\ runErr = NoErr
    /\ lastLog = [msg |-> "init successfully"]
    /\ openBodies = {}
    /\ attempts = <<>>
    /\ catalogSrc = NoSrc
    /\ processed = <<>>
    /\ fundReqs = 0
    /\ writeCalls = 0
    /\ batch = <<>>
    /\ parsed = NotParsed
    /\ fetchCalls = 0
    /\ writeResult = NoErr
    /\ pauses = 0

\* the node the loop of run stands on
fundNode == nodeList[idx]

\* the current fetch was called by getFund
ForHistory == url.endpoint = "lsjz"

Body(returned) ==
    [from |-> IF ForHistory THEN "history" ELSE "catalog", returned |-> returned]

\* the budget kept across calls: a call starts with what the call before left
EnterFetchSharedBudget(u) ==
    /\ url' = u
    /\ cnt' = Attempts - Len(attempts)
    /\ err' = NoErr
    /\ attempts' = <<>>
    /\ pc' = "fetch"

\* getHttpResponse is entered for u: lines 119-124
EnterFetch(u) ==
    /\ url' = u
    /\ cnt' = Attempts
    /\ err' = NoErr
    /\ attempts' = <<>>
    /\ pc' = "fetch"

\* getHttpResponse returns
LeaveFetch ==
    /\ url' = NoUrl
    /\ cnt' = 0
    /\ err' = NoErr

\* main, lines 254-256, into run, getNodeList and getHttpResponse
Main ==
    /\ pc = "main"
    /\ lastLog' = [msg |-> "begin run"]
    /\ EnterFetch(CatalogUrl)
    /\ nodeList' = <<>>
    /\ idx' = 0
    /\ catalogSrc' = NoSrc
    /\ processed' = <<>>
    /\ runErr' = NoErr
    /\ pauses' = 0
    /\ FreshFund
    /\ UNCHANGED <<resp, info, fundErr, openBodies>>

\* a failed attempt that keeps the error of the first failed attempt
AttemptFailedKeepsFirst(e) ==
    /\ err' = IF err = NoErr THEN e ELSE err
    /\ cnt' = cnt - 1
    /\ attempts' = Append(attempts, e)
    /\ fundReqs' = IF ForHistory THEN fundReqs + 1 ELSE fundReqs
    /\ UNCHANGED <<pc, url, resp, info, fundErr, runErr, lastLog, writeCalls, batch, parsed,
                   fetchCalls, writeResult, pauses>>
    /\ UNCHANGED cycleVars

\* what a failed attempt leaves: lines 135-137 and 140-142
AttemptFailed(e) ==
    /\ err' = e
    /\ cnt' = cnt - 1
    /\ attempts' = Append(attempts, e)
    /\ fundReqs' = IF ForHistory THEN fundReqs + 1 ELSE fundReqs
    /\ UNCHANGED <<pc, url, resp, info, fundErr, runErr, lastLog, writeCalls, batch, parsed,
                   fetchCalls, writeResult, pauses>>
    /\ UNCHANGED cycleVars

\* one pass of the loop of getHttpResponse whose transport call errors
AttemptTransportError ==
    /\ pc = "fetch"
    /\ cnt > 0
    /\ AttemptFailed(HttpGetError(url))
    /\ UNCHANGED openBodies

\* one pass whose response has a status other than 200; its body stays open
AttemptBadStatus ==
    /\ pc = "fetch"
    /\ cnt > 0
    /\ \E code \in BadStatuses : AttemptFailed(HttpCodeError(code, url))
    /\ openBodies' = openBodies \cup {Body(FALSE)}

\* one pass answered with status 200 by the catalog endpoint: line 144, and
\* getNodeList goes on at line 91
AttemptCatalogOK ==
    /\ pc = "fetch"
    /\ cnt > 0
    /\ ~ForHistory
    /\ \E a \in CatalogAnswers :
        /\ resp' = a.body
        /\ catalogSrc' = [src |-> a.src, rendered |-> a.rendered]
    /\ LeaveFetch
    /\ attempts' = Append(attempts, NoErr)
    /\ openBodies' = openBodies \cup {Body(TRUE)}
    /\ pc' = "parseCatalog"
    /\ UNCHANGED <<nodeList, idx, processed, info, fundErr, runErr, lastLog, pauses>>
    /\ UNCHANGED fundVars

\* a pass answered with status 200 that does not return: the loop goes on
AttemptHistoryOKKeepsTrying ==
    /\ pc = "fetch"
    /\ cnt > 0
    /\ ForHistory
    /\ \E b \in HistoryBodies : resp' = b
    /\ cnt' = cnt - 1
    /\ UNCHANGED <<url, err>>
    /\ attempts' = Append(attempts, NoErr)
    /\ fundReqs' = fundReqs + 1
    /\ openBodies' = openBodies \cup {Body(TRUE)}
    /\ lastLog' = [msg |-> "get http fund successfully", code |-> fundNode.Code, name |-> fundNode.Name]
    /\ pc' = "fetch"
    /\ UNCHANGED <<info, fundErr, runErr, writeCalls, batch, parsed, fetchCalls, writeResult,
                   pauses>>
    /\ UNCHANGED cycleVars

\* one pass answered with status 200 by the history endpoint: line 144, and
\* getFund goes on at lines 174-177
AttemptHistoryOK ==
    /\ pc = "fetch"
    /\ cnt > 0
    /\ ForHistory
    /\ \E b \in HistoryBodies : resp' = b
    /\ LeaveFetch
    /\ attempts' = Append(attempts, NoErr)
    /\ fundReqs' = fundReqs + 1
    /\ openBodies' = openBodies \cup {Body(TRUE)}
    /\ lastLog' = [msg |-> "get http fund successfully", code |-> fundNode.Code, name |-> fundNode.Name]
    /\ pc' = "parseFund"
    /\ UNCHANGED <<info, fundErr, runErr, writeCalls, batch, parsed, fetchCalls, writeResult,
                   pauses>>
    /\ UNCHANGED cycleVars

\* the loop of getHttpResponse ends with cnt = 0: line 146; getNodeList and run
\* hand the error up (lines 88-90, 241-243), getFund hands it to run (174-176)
FetchGiveUp ==
    /\ pc = "fetch"
    /\ cnt = 0
    /\ IF ForHistory
       THEN /\ fundErr' = err
            /\ pc' = "log"
            /\ UNCHANGED runErr
       ELSE /\ runErr' = err
            /\ pc' = "runFailed"
            /\ UNCHANGED fundErr
    /\ LeaveFetch
    /\ UNCHANGED <<resp, info, lastLog, openBodies, attempts, pauses>>
    /\ UNCHANGED cycleVars
    /\ UNCHANGED fundVars

\* the raw tuples of a body on which getNodeList does not panic (line 99)
RawLists(body) ==
    CHOOSE lists \in { Split(GoSlice(s, 1, Len(s) - 3), TupleSep) : s \in {CatalogText(body)} } :
        TRUE

\* the log line of the last tuple skipped at lines 103-106, if there is one
InvalidNodeLog(body, log) ==
    CHOOSE line \in
        { IF bad = {} THEN log
          ELSE [msg |-> "invalid node",
                list |-> RawLists(body)[CHOOSE i \in bad : \A j \in bad : j <= i]] :
            bad \in { {i \in 1..Len(lists) : Len(Split(lists[i], FieldSep)) # 5} :
                        lists \in {RawLists(body)} } } :
        TRUE

\* getNodeList, lines 91-115: the body is closed when the function returns or
\* panics (defer); a panic ends the process
GetNodeList ==
    /\ pc = "parseCatalog"
    /\ openBodies' = openBodies \ {[from |-> "catalog", returned |-> TRUE]}
    /\ IF CatalogPanics(resp)
       THEN /\ pc' = "crashed"
            /\ UNCHANGED <<nodeList, lastLog>>
       ELSE /\ nodeList' = ParseCatalog(resp)
            /\ lastLog' = InvalidNodeLog(resp, lastLog)
            /\ pc' = "loop"
    /\ resp' = <<>>
    /\ attempts' = <<>>
    /\ UNCHANGED <<idx, catalogSrc, processed, info, fundErr, runErr, pauses>>
    /\ UNCHANGED fetchVars
    /\ UNCHANGED fundVars

\* run, line 244: the loop takes the next node and calls getFund
RunLoop ==
    /\ pc = "loop"
    /\ idx < Len(nodeList)
    /\ idx' = idx + 1
    /\ processed' = Append(processed, idx + 1)
    /\ FreshFund
    /\ pc' = "getFund"
    /\ UNCHANGED <<resp, nodeList, catalogSrc, info, fundErr, runErr, lastLog, openBodies,
                   attempts, pauses>>
    /\ UNCHANGED fetchVars

\* run, line 250: the loop is over, run returns nil and main starts over
RunReturn ==
    /\ pc = "loop"
    /\ idx = Len(nodeList)
    /\ pc' = "main"
    /\ UNCHANGED <<resp, info, fundErr, runErr, lastLog, openBodies, attempts, pauses>>
    /\ UNCHANGED fetchVars
    /\ UNCHANGED cycleVars
    /\ UNCHANGED fundVars

\* getFund without the check of lines 167-169
GetFundNoCodeCheck ==
    /\ pc = "getFund"
    /\ fetchCalls' = fetchCalls + 1
    /\ IF UrlParseFails(fundNode.Code)
       THEN /\ fundErr' = [kind |-> "url parse", code |-> fundNode.Code]
            /\ pc' = "log"
            /\ UNCHANGED <<attempts, url, cnt, err>>
       ELSE /\ EnterFetch(FundUrl(fundNode.Code))
            /\ UNCHANGED fundErr
    /\ UNCHANGED <<resp, info, runErr, lastLog, openBodies, fundReqs, writeCalls, batch,
                   parsed, writeResult, pauses>>
    /\ UNCHANGED cycleVars

\* getFund, lines 167-173, into getHttpResponse (lines 119-124)
GetFund ==
    /\ pc = "getFund"
    /\ IF fundNode.Code = <<>>
       THEN /\ fundErr' = [kind |-> "empty fund code"]
            /\ pc' = "log"
            /\ UNCHANGED <<attempts, url, cnt, err, fetchCalls>>
       ELSE /\ fetchCalls' = fetchCalls + 1
            /\ IF UrlParseFails(fundNode.Code)
               THEN /\ fundErr' = [kind |-> "url parse", code |-> fundNode.Code]
                    /\ pc' = "log"
                    /\ UNCHANGED <<attempts, url, cnt, err>>
               ELSE /\ EnterFetch(FundUrl(fundNode.Code))
                    /\ UNCHANGED fundErr
    /\ UNCHANGED <<resp, info, runErr, lastLog, openBodies, fundReqs, writeCalls, batch,
                   parsed, writeResult, pauses>>
    /\ UNCHANGED cycleVars

\* getFund, lines 178-181: the body is read and never closed
ParseFund ==
    /\ pc = "parseFund"
    /\ IF parseFund(resp).err # NoErr
       THEN /\ fundErr' = parseFund(resp).err
            /\ pc' = "log"
            /\ UNCHANGED <<info, parsed>>
       ELSE /\ info' = parseFund(resp).info
            /\ parsed' = [ok |-> TRUE, info |-> parseFund(resp).info]
            /\ pc' = "checkErrCode"
            /\ UNCHANGED fundErr
    /\ resp' = <<>>
    /\ attempts' = <<>>
    /\ UNCHANGED <<runErr, lastLog, openBodies, fundReqs, writeCalls, batch, fetchCalls,
                   writeResult, pauses>>
    /\ UNCHANGED fetchVars
    /\ UNCHANGED cycleVars

\* the error code of the envelope not looked at
CheckErrCodeIgnored ==
    /\ pc = "checkErrCode"
    /\ pc' = "sink"
    /\ UNCHANGED <<resp, info, fundErr, runErr, lastLog, openBodies, attempts, pauses>>
    /\ UNCHANGED fetchVars
    /\ UNCHANGED cycleVars
    /\ UNCHANGED fundVars

\* getFund, lines 182-184
CheckErrCode ==
    /\ pc = "checkErrCode"
    /\ IF info.ErrCode # 0
       THEN /\ fundErr' = [kind |-> "fund info error", code |-> info.ErrCode, msg |-> info.ErrMsg,
                           index |-> info.PageIndex, size |-> info.PageSize]
            /\ info' = ZeroInfo
            /\ pc' = "log"
       ELSE /\ pc' = "sink"
            /\ UNCHANGED <<fundErr, info>>
    /\ UNCHANGED <<resp, runErr, lastLog, openBodies, attempts, pauses>>
    /\ UNCHANGED fetchVars
    /\ UNCHANGED cycleVars
    /\ UNCHANGED fundVars

\* what influxClient.Write may return (line 231)
WriteResults == {NoErr, [kind |-> "write", cause |-> "network"], [kind |-> "write", cause |-> "rejected"]}

\* sink with a second Write after a failed one
SinkRetriesWrite ==
    /\ pc = "sink"
    /\ LET built == BuildPoints(Tags(fundNode), info.LSJZList, <<>>)
       IN  IF built.err # NoErr
           THEN /\ fundErr' = built.err
                /\ UNCHANGED <<writeCalls, batch, writeResult, lastLog>>
           ELSE /\ batch' = built.points
                /\ \E first, r \in WriteResults :
                    /\ writeCalls' = IF first = NoErr THEN writeCalls + 1 ELSE writeCalls + 2
                    /\ writeResult' = r
                    /\ fundErr' = r
                    /\ lastLog' = IF r = NoErr
                                  THEN [msg |-> "sink successfully", code |-> fundNode.Code,
                                        name |-> fundNode.Name, count |-> Len(built.points)]
                                  ELSE lastLog
    /\ info' = ZeroInfo
    /\ pc' = "log"
    /\ UNCHANGED <<resp, runErr, openBodies, attempts, fundReqs, parsed, fetchCalls, pauses>>
    /\ UNCHANGED fetchVars
    /\ UNCHANGED cycleVars

\* sink, called at line 185: the points are built, and when all are, the batch
\* is written once; the write succeeds or fails, and getFund returns what sink
\* returned
Sink ==
    /\ pc = "sink"
    /\ LET built == BuildPoints(Tags(fundNode), info.LSJZList, <<>>)
       IN  IF built.err # NoErr
           THEN /\ fundErr' = built.err
                /\ UNCHANGED <<writeCalls, batch, writeResult, lastLog>>
           ELSE /\ writeCalls' = writeCalls + 1
                /\ batch' = built.points
                /\ \E r \in WriteResults :
                    /\ writeResult' = r
                    /\ fundErr' = r
                    /\ lastLog' = IF r = NoErr
                                  THEN [msg |-> "sink successfully", code |-> fundNode.Code,
                                        name |-> fundNode.Name, count |-> Len(built.points)]
                                  ELSE lastLog
    /\ info' = ZeroInfo
    /\ pc' = "log"
    /\ UNCHANGED <<resp, runErr, openBodies, attempts, fundReqs, parsed, fetchCalls, pauses>>
    /\ UNCHANGED fetchVars
    /\ UNCHANGED cycleVars

\* the loop of run left at the first failed instrument
LogFundErrorEndsCycle ==
    /\ pc = "log"
    /\ lastLog' = IF fundErr # NoErr
                  THEN [msg |-> "get fund error", code |-> fundNode.Code,
                        name |-> fundNode.Name, err |-> fundErr]
                  ELSE lastLog
    /\ pauses' = 0
    /\ pc' = IF fundErr # NoErr THEN "main" ELSE "sleep"
    /\ UNCHANGED <<resp, info, fundErr, runErr, openBodies, attempts>>
    /\ UNCHANGED fetchVars
    /\ UNCHANGED cycleVars
    /\ UNCHANGED fundVars

\* the sleep skipped after a failed instrument
LogFundErrorSkipsSleep ==
    /\ pc = "log"
    /\ lastLog' = IF fundErr # NoErr
                  THEN [msg |-> "get fund error", code |-> fundNode.Code,
                        name |-> fundNode.Name, err |-> fundErr]
                  ELSE lastLog
    /\ pauses' = 0
    /\ pc' = IF fundErr # NoErr THEN "loop" ELSE "sleep"
    /\ UNCHANGED <<resp, info, fundErr, runErr, openBodies, attempts>>
    /\ UNCHANGED fetchVars
    /\ UNCHANGED cycleVars
    /\ UNCHANGED fundVars

\* run, lines 245-247: getFund returned
LogFundError ==
    /\ pc = "log"
    /\ lastLog' = IF fundErr # NoErr
                  THEN [msg |-> "get fund error", code |-> fundNode.Code,
                        name |-> fundNode.Name, err |-> fundErr]
                  ELSE lastLog
    /\ pauses' = 0
    /\ pc' = "sleep"
    /\ UNCHANGED <<resp, info, fundErr, runErr, openBodies, attempts>>
    /\ UNCHANGED fetchVars
    /\ UNCHANGED cycleVars
    /\ UNCHANGED fundVars

\* run sleeping between two instruments only, not after the last of the cycle
SleepExceptLast ==
    /\ pc = "sleep"
    /\ pauses' = IF idx = Len(nodeList) THEN pauses ELSE pauses + 1
    /\ fundErr' = NoErr
    /\ attempts' = <<>>
    /\ pc' = "loop"
    /\ UNCHANGED <<resp, info, runErr, lastLog, openBodies>>
    /\ UNCHANGED fetchVars
    /\ UNCHANGED cycleVars
    /\ UNCHANGED fundVars

\* run, line 248
Sleep ==
    /\ pc = "sleep"
    /\ pauses' = pauses + 1
    /\ fundErr' = NoErr
    /\ attempts' = <<>>
    /\ pc' = "loop"
    /\ UNCHANGED <<resp, info, runErr, lastLog, openBodies>>
    /\ UNCHANGED fetchVars
    /\ UNCHANGED cycleVars
    /\ UNCHANGED fundVars

\* the error of run logged with Fatal, which ends the process
RunFailedFatal ==
    /\ pc = "runFailed"
    /\ lastLog' = [msg |-> "run error", err |-> runErr]
    /\ pc' = "crashed"
    /\ UNCHANGED <<resp, info, fundErr, runErr, openBodies, attempts, pauses>>
    /\ UNCHANGED fetchVars
    /\ UNCHANGED cycleVars
    /\ UNCHANGED fundVars

\* main, lines 256-258: run returned an error
RunFailed ==
    /\ pc = "runFailed"
    /\ lastLog' = [msg |-> "run error", err |-> runErr]
    /\ pc' = "main"
    /\ UNCHANGED <<resp, info, fundErr, runErr, openBodies, attempts, pauses>>
    /\ UNCHANGED fetchVars
    /\ UNCHANGED cycleVars
    /\ UNCHANGED fundVars

Next ==
    \/ Main
    \/ AttemptTransportError
    \/ AttemptBadStatus
    \/ AttemptCatalogOK
    \/ AttemptHistoryOK
    \/ FetchGiveUp
    \/ GetNodeList
    \/ RunLoop
    \/ RunReturn
    \/ GetFund
    \/ ParseFund
    \/ CheckErrCode
    \/ Sink
    \/ LogFundError
    \/ Sleep
    \/ RunFailed

Spec == Init /\ [][Next]_vars

\* the single thread of control takes its next step whenever it has one: every
\* HTTP attempt and every Write call returns
FairSpec == Spec /\ WF_vars(Next)

(***************************************************************************)
(* Properties.                                                             *)
(***************************************************************************)

\* a getHttpResponse call has handed the error of its attempts to its caller
FetchFailed ==
    \/ pc = "runFailed"
    \/ pc \in {"log", "sleep"} /\ fundErr.kind \in {"http get error", "http code error"}

\* the error the caller of getHttpResponse got
ReturnedErr == IF pc = "runFailed" THEN runErr ELSE fundErr

\* C1: a getHttpResponse call in which every attempt fails sends exactly 3
\* requests and returns the error of the last attempt; no call sends more than
\* 3 requests, and none is sent once the call has returned.
C1_RetryExhaustion ==
    /\ [](Len(attempts) <= 3)
    /\ [](FetchFailed =>
            /\ Len(attempts) = 3
            /\ \A i \in 1..3 : attempts[i] # NoErr
            /\ ReturnedErr = attempts[3])
    /\ [][pc # "fetch" => attempts' = attempts \/ attempts' = <<>>]_vars

C1_Witness ==
    /\ pc = "log"
    /\ Len(attempts) = 3
    /\ attempts[1].kind = "http get error"
    /\ attempts[2].kind = "http code error"
    /\ fundErr = HttpCodeError(500, FundUrl(fundNode.Code))

\* C2: in a cycle whose catalog discovery succeeded getFund is called for every
\* record of the catalog exactly once and in catalog order: the cycle ends only
\* when the last record has been processed, whatever failed before.
C2_EveryRecordProcessed ==
    /\ idx <= Len(nodeList)
    /\ processed = [i \in 1..idx |-> i]
    /\ (pc = "main" => idx = Len(nodeList))

C2_Witness ==
    /\ pc = "getFund"
    /\ idx = 2
    /\ lastLog.msg = "get fund error"
    /\ lastLog.err.kind = "write"

\* C3: when catalog discovery fails nothing was requested or written for any
\* instrument in the cycle, main logs the error of run, and the next request
\* of the process is a fresh catalog request.
C3_CatalogFailureAbortsCycle ==
    /\ [](pc = "runFailed" =>
            /\ runErr # NoErr
            /\ processed = <<>>
            /\ fetchCalls = 0
            /\ fundReqs = 0
            /\ writeCalls = 0)
    /\ [][pc = "runFailed" =>
            /\ pc' = "main"
            /\ lastLog' = [msg |-> "run error", err |-> runErr]]_vars
    /\ [][pc = "main" =>
            /\ pc' = "fetch"
            /\ url' = CatalogUrl
            /\ cnt' = 3
            /\ attempts' = <<>>]_vars

C3_Witness ==
    /\ pc = "main"
    /\ runErr = HttpCodeError(500, CatalogUrl)
    /\ lastLog = [msg |-> "run error", err |-> runErr]
    /\ Len(attempts) = 3
    /\ processed = <<>>

\* C4: the process never crashes, whatever the catalog and history bodies are.
C4_NeverCrashes == pc # "crashed"

\* some record of the page has a date that does not parse
HasBadDate(list) == \E i \in 1..Len(list) : ~ParseLocal(list[i].FSRQ).ok

\* C5: when a record of the history page has an unparseable date, Write is not
\* called for the instrument, getFund returns an error that run logs for this
\* instrument, and the loop goes on.
C5_BadDateWritesNothing ==
    /\ [](pc \in {"log", "sleep"} /\ parsed.ok /\ HasBadDate(parsed.info.LSJZList) =>
            /\ writeCalls = 0
            /\ batch = <<>>
            /\ fundErr # NoErr
            /\ (pc = "sleep" =>
                    lastLog = [msg |-> "get fund error", code |-> fundNode.Code,
                               name |-> fundNode.Name, err |-> fundErr]))
    /\ [][pc = "sleep" => pc' = "loop" /\ idx' = idx /\ nodeList' = nodeList]_vars

C5_Witness ==
    /\ pc = "sleep"
    /\ idx = 1
    /\ Len(nodeList) = 2
    /\ parsed.info.LSJZList = <<DetailGood, DetailBadDate>>
    /\ fundErr = [kind |-> "dateparse", value |-> "bad"]
    /\ writeCalls = 0

\* C6: when the decoded envelope has a nonzero ErrCode, Write is not called for
\* the instrument, no request follows for it, and the error getFund returns
\* carries the ErrCode and the ErrMsg of the envelope.
C6_DomainErrorShortCircuits ==
    /\ [](pc \in {"log", "sleep"} /\ parsed.ok /\ parsed.info.ErrCode # 0 =>
            /\ writeCalls = 0
            /\ fetchCalls = 1
            /\ fundErr.kind = "fund info error"
            /\ fundErr.code = parsed.info.ErrCode
            /\ fundErr.msg = parsed.info.ErrMsg
            /\ (pc = "sleep" => lastLog.msg = "get fund error" /\ lastLog.err = fundErr))
    /\ [][(pc \in {"checkErrCode", "log", "sleep"}) => (fundReqs' = fundReqs)]_vars

C6_Witness ==
    /\ pc = "sleep"
    /\ parsed.ok
    /\ parsed.info.ErrCode = 7
    /\ fundErr.kind = "fund info error"
    /\ fundErr.msg = "denied"
    /\ fundReqs = 2

IsFive(t) == Len(t) = 5

\* the record of a 5-field source tuple
RecordOf(t) == [Code |-> t[1], Abridge |-> t[2], Name |-> t[3], Type |-> t[4], Pinyin |-> t[5]]

\* the records of the 5-field tuples of src, in source order
RecordsOf(src) ==
    LET five == SelectSeq(src, IsFive)
    IN  [i \in 1..Len(five) |-> RecordOf(five[i])]

\* C7: a catalog of N tuples of which exactly one has not 5 fields yields N-1
\* records, those of the other tuples in source order.
C7_MalformedTupleSkipped ==
    (/\ pc = "loop"
     /\ catalogSrc.rendered
     /\ Len(SelectSeq(catalogSrc.src, IsFive)) = Len(catalogSrc.src) - 1)
        => /\ Len(nodeList) = Len(catalogSrc.src) - 1
           /\ nodeList = RecordsOf(catalogSrc.src)

\* a point can be built for every record of the page
AllBuilt(list) ==
    \A i \in 1..Len(list) : ParseLocal(list[i].FSRQ).ok /\ ~NewPointFails(Fields(list[i]))

\* C8: for one instrument Write is called once when the page was fetched and
\* decoded, its ErrCode is 0 and every point was built, and not at all
\* otherwise; what Write returned is what getFund returns, after one call.
C8_OneWritePerInstrument ==
    /\ writeCalls <= 1
    /\ (pc \in {"log", "sleep"} =>
            /\ writeCalls = IF /\ parsed.ok
                               /\ parsed.info.ErrCode = 0
                               /\ AllBuilt(parsed.info.LSJZList)
                            THEN 1 ELSE 0
            /\ (writeCalls = 1 => fundErr = writeResult /\ Len(batch) = Len(parsed.info.LSJZList)))

C8_Witness ==
    /\ pc = "sleep"
    /\ writeCalls = 1
    /\ parsed.info.LSJZList = <<>>
    /\ fundErr = [kind |-> "write", cause |-> "rejected"]
    /\ lastLog.msg = "get fund error"

\* C9: at every instrument boundary and at every cycle boundary no body that a
\* getHttpResponse call returned is still open.
C9_BodiesClosedAtBoundaries ==
    pc \in {"loop", "main"} => \A b \in openBodies : ~b.returned

\* C10: when getFund is entered for an instrument that is not the first of its
\* cycle, and when its requests are sent, run has slept exactly once since
\* getFund returned for the instrument before.
C10_OnePauseBetweenInstruments ==
    pc \in {"getFund", "fetch"} /\ idx > 1 => pauses = 1

C10_Witness ==
    /\ pc = "fetch"
    /\ idx = 2
    /\ attempts = <<>>
    /\ nodeList[1].Code = <<>>
    /\ lastLog.msg = "get fund error"
    /\ pauses = 1

\* C11: the retry budget belongs to the call: every call of getHttpResponse
\* starts with a budget of 3 whatever the calls before it consumed, and inside
\* a call the budget left is 3 less the attempts that call has made.
C11_FreshBudgetPerCall ==
    /\ [](pc = "fetch" => cnt = Attempts - Len(attempts))
    /\ [][(pc # "fetch" /\ pc' = "fetch") => (cnt' = 3 /\ attempts' = <<>>)]_vars

C11_Witness ==
    /\ pc = "fetch"
    /\ idx = 2
    /\ cnt = 3
    /\ attempts = <<>>
    /\ lastLog.msg = "get fund error"
    /\ lastLog.err = HttpCodeError(500, FundUrl(nodeList[1].Code))

\* a decimal numeral, among the numeric strings of this model
IsDecimal(s) == s \in {"1.234", "2.345", "0.12"}

\* C12: for every record of a page whose dates all parse exactly one point is
\* built; its fields are NAVTYPE, SGZT and SHZT and each of DWJZ, LJJZ and
\* JZZZL whose source string is a decimal number; a numeric string that is no
\* number neither drops the point nor fails the batch.
C12_PointPerDatedRecord ==
    (/\ pc \in {"log", "sleep"}
     /\ parsed.ok
     /\ parsed.info.ErrCode = 0
     /\ ~HasBadDate(parsed.info.LSJZList))
        => /\ writeCalls = 1
           /\ Len(batch) = Len(parsed.info.LSJZList)
           /\ \A i \in 1..Len(batch) :
                DOMAIN batch[i].fields =
                    StringKeys \cup {k \in FloatKeys : IsDecimal(parsed.info.LSJZList[i][k])}

\* C13: whenever Write is called for an instrument the batch holds exactly one
\* point per record of the page, in the order of the records, and every point
\* carries the same five tags, those of the instrument's catalog record.
C13_BatchMirrorsPage ==
    writeCalls = 1 =>
        /\ Len(batch) = Len(parsed.info.LSJZList)
        /\ \A i \in 1..Len(batch) :
            /\ batch[i].time = ParseLocal(parsed.info.LSJZList[i].FSRQ).time
            /\ batch[i].fields = Fields(parsed.info.LSJZList[i])
            /\ batch[i].tags = [code |-> fundNode.Code, abridge |-> fundNode.Abridge,
                                name |-> fundNode.Name, type |-> fundNode.Type,
                                pinyin |-> fundNode.Pinyin]

C13_Witness ==
    /\ pc = "log"
    /\ writeCalls = 1
    /\ Len(batch) = 2
    /\ batch[1].time = 20240103
    /\ batch[2].time = 20240102
    /\ batch[1].tags = batch[2].tags
    /\ batch[1].tags.code = nodeList[idx].Code
    /\ batch[1].tags.abridge # batch[1].tags.name

\* the positions of body that hold the character '{'
Braces(body) == {i \in 1..Len(body) : body[i] = Ch("{")}

\* the members that follow the '{' at position b without a gap
MembersAt(body, b) ==
    {j \in (b + 1)..Len(body) : \A i \in (b + 1)..j : body[i].t = "member"}

\* the text from position b on starts with one complete JSON object
ValidObjectAt(body, b) ==
    \E e \in (b + 1)..Len(body) :
        body[e] = Ch("}") /\ \A j \in (b + 1)..(e - 1) : body[j].t = "member"

\* the envelope that the object at position b stands for
EnvelopeAt(body, b) ==
    [k \in DOMAIN ZeroInfo |->
        LET at == {j \in MembersAt(body, b) : body[j].k = k}
        IN  IF at = {} THEN ZeroInfo[k]
            ELSE body[CHOOSE j \in at : \A i \in at : i <= j].v]

\* C14: parseFund fails with "invalid response body" when the body holds no
\* '{'; otherwise the envelope is the JSON value that starts at the first '{',
\* whatever stands before that '{' and after the end of the value, and
\* parseFund fails when the text from the first '{' is no complete JSON value.
C14_DecodesFromFirstBrace ==
    [][(pc = "parseFund") =>
        (IF Braces(resp) = {}
         THEN pc' = "log" /\ fundErr' = [kind |-> "invalid response body"]
         ELSE LET first == CHOOSE b \in Braces(resp) : \A i \in Braces(resp) : b <= i
              IN  IF ValidObjectAt(resp, first)
                  THEN pc' = "checkErrCode" /\ info' = EnvelopeAt(resp, first)
                  ELSE pc' = "log" /\ fundErr'.kind = "json")]_vars

C14_Witness ==
    /\ pc = "checkErrCode"
    /\ parsed.ok
    /\ info = parsed.info
    /\ info.TotalCount = 45
    /\ info.PageSize = 20
    /\ Len(info.LSJZList) = 2

\* C15: for a catalog payload `var r = [[..],[..]];` of N tuples that all have
\* 5 fields getNodeList returns exactly N records, the i-th holding the five
\* fields of the i-th tuple without quotes and brackets, in source order.
C15_WellFormedCatalogParsed ==
    (/\ pc # "parseCatalog"
     /\ catalogSrc.rendered
     /\ \A i \in 1..Len(catalogSrc.src) : IsFive(catalogSrc.src[i]))
        => /\ pc # "crashed"
           /\ Len(nodeList) = Len(catalogSrc.src)
           /\ \A i \in 1..Len(nodeList) : nodeList[i] = RecordOf(catalogSrc.src[i])

\* C16: for one instrument of one cycle getHttpResponse is called at most once
\* for history, always for page 1 with page size 20 of that instrument; no
\* further page is requested whatever TotalCount, PageSize and PageIndex of
\* the decoded envelope say.
C16_OnlyFirstPage ==
    /\ fetchCalls <= 1
    /\ (pc = "fetch" /\ ForHistory =>
            /\ fetchCalls = 1
            /\ url = [endpoint |-> "lsjz", fundCode |-> fundNode.Code,
                      pageIndex |-> 1, pageSize |-> 20])
    /\ (pc \in {"checkErrCode", "sink", "log", "sleep"} /\ parsed.ok => url = NoUrl)

C16_Witness ==
    /\ pc = "sleep"
    /\ parsed.ok
    /\ parsed.info.TotalCount = 45
    /\ parsed.info.PageIndex * parsed.info.PageSize < parsed.info.TotalCount
    /\ writeCalls = 1
    /\ fetchCalls = 1
    /\ fundReqs = 1

Succeeded == {i \in 1..Len(attempts) : attempts[i] = NoErr}

\* C18: inside one getHttpResponse call the attempts follow one another
\* without a pause and end with the first that gets status 200: that attempt's
\* response is returned and no request follows it; a call that returns a
\* response made at most 3 attempts of which the last and only the last
\* succeeded, a call that returns an error made 3 attempts that all failed.
C18_StopsAtFirstSuccess ==
    /\ [](/\ Len(attempts) <= 3
          /\ Succeeded \subseteq {Len(attempts)}
          /\ (pc = "fetch" => Succeeded = {})
          /\ (pc \in {"parseCatalog", "parseFund"} => Succeeded = {Len(attempts)})
          /\ (FetchFailed => Succeeded = {} /\ Len(attempts) = 3))
    /\ [][(pc = "fetch") =>
            /\ pauses' = pauses
            /\ (Len(attempts') = Len(attempts) + 1 \/ attempts' = attempts)
            /\ (attempts' # attempts /\ attempts'[Len(attempts')] = NoErr =>
                    \/ pc' = "parseCatalog" /\ resp' \in {a.body : a \in CatalogAnswers}
                    \/ pc' = "parseFund" /\ resp' \in HistoryBodies)
            /\ (attempts' # attempts /\ attempts'[Len(attempts')] # NoErr =>
                    pc' = "fetch" /\ resp' = resp)]_vars

C18_Witness ==
    /\ pc = "parseFund"
    /\ attempts = <<HttpCodeError(500, FundUrl(fundNode.Code)),
                    HttpGetError(FundUrl(fundNode.Code)), NoErr>>
    /\ fundReqs = 3
    /\ resp \in HistoryBodies
    /\ pauses = 0

\* C19: when every HTTP attempt and every Write call returns, every cycle ends
\* and the catalog is requested again and again: at any time main will be back
\* at the top of its loop and a new catalog request will be sent, so the
\* process never comes to a state it does not leave.
C19_CyclesForever ==
    /\ []<>(pc = "main")
    /\ []<>(pc = "fetch" /\ url = CatalogUrl /\ attempts = <<>>)

\* C20: for a catalog record whose code is empty getFund returns the error
\* "empty fund code" with no getHttpResponse call, no request and no Write
\* call; run logs the error for that record, sleeps once and goes on to the
\* next record.
C20_EmptyCodeSkipped ==
    /\ [](idx > 0
            /\ pc \in {"getFund", "fetch", "parseFund", "checkErrCode", "sink", "log", "sleep"}
            /\ fundNode.Code = <<>> =>
                /\ pc \in {"getFund", "log", "sleep"}
                /\ fetchCalls = 0 /\ fundReqs = 0 /\ writeCalls = 0
                /\ (pc \in {"log", "sleep"} => fundErr = [kind |-> "empty fund code"])
                /\ (pc = "sleep" =>
                        lastLog = [msg |-> "get fund error", code |-> <<>>,
                                   name |-> fundNode.Name, err |-> fundErr]))
    /\ [][(pc = "sleep" /\ fundNode.Code = <<>>) =>
            (pc' = "loop" /\ pauses' = pauses + 1 /\ idx' = idx /\ nodeList' = nodeList)]_vars
    /\ [][(pc = "loop" /\ idx < Len(nodeList)) =>
            (pc' = "getFund" /\ idx' = idx + 1)]_vars

C20_Witness ==
    /\ pc = "getFund"
    /\ idx = 2
    /\ nodeList[1] = ZeroNode
    /\ nodeList[2].Code # <<>>
    /\ lastLog.msg = "get fund error"
    /\ lastLog.err = [kind |-> "empty fund code"]
    /\ pauses = 1
    /\ fundReqs = 0

====
